---- MODULE Spec2Model ----
(***************************************************************************)
(* Model of the admission-controlled gateway of the Okta MCP server:       *)
(*   - RequestManager (okta_mcp/utils/request_manager.py)                  *)
(*   - OktaMcpClient.execute_api_call (okta_mcp/utils/okta_client.py)      *)
(*   - the upstream calls issued by the tool layer (okta_mcp/tools/*.py)   *)
(*                                                                         *)
(* The code runs on one asyncio event loop.  A coroutine runs without      *)
(* interleaving until it suspends.  Inside RequestManager the only await   *)
(* that suspends is the submitted function itself and the wait on the      *)
(* request's future: the lock is never held across a suspension (put on an *)
(* unbounded queue and get on a non-empty queue return at once), so the    *)
(* lock is never contended and each critical section is one step.  The run *)
(* of a coroutine from the return of the function to the end of            *)
(* _release_slot is split in two steps (resolve the future, then release)  *)
(* to keep the order of the statements; no other coroutine runs between    *)
(* the two (see LoopIdle).                                                 *)
(***************************************************************************)
EXTENDS Integers, Sequences, FiniteSets, TLC

\* ------------------------------------------------------------------ bounds
MaxRequests == 3          \* number of execute() calls that are submitted
MaxLimit == 2             \* largest concurrent_limit that is constructed

MaxCursorPages == 2       \* most continuation pages a cursor announces

MaxItems == 2             \* most items of the initial page of a walk
MaxBudget == 3            \* largest PAGINATION_LIMIT that is configured
MaxTupleLen == 4          \* longest tuple an upstream call returns
MaxPasses == 2            \* most times a response is normalized
MaxDeficit == 1           \* a limit that is not positive is 0 or -1
MaxServerCalls == 2       \* execute_api_call calls next to a tool call

Requests == 1..MaxRequests

\* --------------------------------------------------------------- variables
VARIABLES
    concurrent_limit,     \* RequestManager.concurrent_limit
    active_requests,      \* RequestManager.active_requests
    request_queue,        \* RequestManager.request_queue (task descriptors)
    pc,                   \* position of the execute() coroutine of a request
    task,                 \* position of the request's queued task
    future,               \* task_desc["future"] of a request
    outcome,              \* how the submitted function of a request ended
    received,             \* what execute() handed to its caller
    runs,                 \* number of invocations of the submitted function
    acquired,             \* number of slots given to the request
    released,             \* number of _release_slot calls made for the request
    enqueued,             \* history: requests in the order of queue.put
    dequeued,             \* history: requests in the order of queue.get
    request_manager,      \* OktaMcpClient.request_manager
    client_initialized,   \* OktaMcpClient._client_initialized
    raw,                  \* the raw response of the initial upstream call
    norm,                 \* normalize_okta_response(raw), a 3-tuple
    max_pages,            \* DEFAULT_PAGINATION_LIMIT
    wpc,                  \* position of paginate_okta_response
    all_results,          \* paginate_okta_response: all_results
    walk_count,           \* paginate_okta_response: page_count
    more,                 \* what has_next() of the cursor answers now
    next_page,            \* the pair returned by the last response.next()
    result,               \* the 4-tuple paginate_okta_response returned
    fetches,              \* history: number of response.next() calls
    page_log,             \* history: the pages whose items were accumulated
    stop,                 \* history: why the walk ended
    log,                  \* what normalize_okta_response wrote to the logger
    passes,               \* history: number of normalize_okta_response calls
    loop,                 \* the call of a listing tool and its page loop
    call                  \* the call of another tool of the server

toolVars == <<request_manager, client_initialized, call>>

walkVars == <<raw, norm, max_pages, wpc, all_results, walk_count, more,
              next_page, result, fetches, page_log, stop, log, passes>>

vars == <<concurrent_limit, active_requests, request_queue, pc, task, future,
          outcome, received, runs, acquired, released, enqueued, dequeued,
          request_manager, client_initialized,
          raw, norm, max_pages, wpc, all_results, walk_count, more,
          next_page, result, fetches, page_log, stop, log, passes, loop,
          call>>

\* ----------------------------------------------------------------- values
Pending == [kind |-> "pending", val |-> 0]
Cancelled == [kind |-> "cancelled", val |-> 0]
Nothing == [kind |-> "none", val |-> 0]
\* the submitted function of request r returns a value of its own, or raises
\* an error of its own
Ok(r) == [kind |-> "ok", val |-> r]
Err(r) == [kind |-> "err", val |-> r]
\* an upstream operation in flight: what is called, and through what
NoCall == [op |-> "none", via |-> "none"]

\* ---------------------------------------- values of upstream responses
\* Python values as far as normalize_okta_response and
\* paginate_okta_response look at them.  An item of a page is an integer:
\* 0 is None (or another false value), -1 an object without as_dict, n > 0
\* the model object n.
NoneV == [type |-> "None"]
ListV(s) == [type |-> "list", items |-> s]
\* a response object of the SDK; has_next() answers "yes" or "no", or raises
CursorV(m) == [type |-> "response", more |-> m]
\* an error object or exception
ErrorV(m) == [type |-> "error", msg |-> m]
\* line 36: ValueError(f"Unexpected response format: {response}"); the
\* text ends with the repr of the response, arg here
ShapeError(x) ==
    [type |-> "error", msg |-> "Unexpected response format", arg |-> x]
\* any other object; attr is its attribute `response`, None when absent
ObjectV(a) == [type |-> "object", attr |-> a]
TupleV(s) == [type |-> "tuple", elems |-> s]

Items == {0, -1, 1, 2}

\* the sequences over S of length at most n
SeqsUpTo(S, n) == UNION {[1..k -> S] : k \in 0..n}

\* what the first element of a response can be: a page as a list or as a
\* tuple, None, one object
PageValues ==
    {ListV(s) : s \in SeqsUpTo(Items, MaxItems)}
    \cup {TupleV(<<>>), TupleV(<<NoneV>>), NoneV, ObjectV(NoneV)}
\* what the second element can be
CursorValues ==
    {CursorV(m) : m \in {"yes", "no", "raises"}} \cup {NoneV, ObjectV(NoneV)}
\* what the third element can be
ErrorValues == {NoneV, ErrorV("E")}
\* elements of the tuples of another length
OtherValues == {NoneV, ListV(<<1>>), ErrorV("E")}

\* the raw responses an upstream call returns: 3-tuples, 2-tuples, tuples
\* of another length, and values that are no tuple
RawResponses ==
    {TupleV(<<a, b, c>>) :
        a \in PageValues, b \in CursorValues, c \in ErrorValues}
    \cup {TupleV(<<a, b>>) : a \in PageValues, b \in CursorValues}
    \cup {TupleV(s) : s \in UNION {[1..k -> OtherValues] :
                                     k \in (0..MaxTupleLen) \ {2, 3}}}
    \cup {NoneV, ListV(<<1, 2>>), ObjectV(NoneV)}
    \cup {ObjectV(CursorV(m)) : m \in {"yes", "no"}}

\* the pages a continuation fetch returns
PageSamples == {<<>>, <<1>>, <<2, 1>>, <<0, 2, -1>>}

\* a cursor is not asked for more pages than this
CursorHorizon == MaxBudget + 2

\* the pair returned by response.next(), or the exception it raised
NoPage == [kind |-> "none", items |-> NoneV, err |-> NoneV]
NoResult == [kind |-> "none"]

\* ------------------------------------------------- RequestManager.__init__
InitManager ==
    /\ concurrent_limit \in 1..MaxLimit
    /\ active_requests = 0
    /\ request_queue = <<>>
    /\ pc = [r \in Requests |-> "new"]
    /\ task = [r \in Requests |-> "none"]
    /\ future = [r \in Requests |-> Pending]
    /\ outcome = [r \in Requests |-> "none"]
    /\ received = [r \in Requests |-> Nothing]
    /\ runs = [r \in Requests |-> 0]
    /\ acquired = [r \in Requests |-> 0]
    /\ released = [r \in Requests |-> 0]
    /\ enqueued = <<>>
    /\ dequeued = <<>>

\* no response is being walked
InitWalkIdle ==
    /\ raw = NoneV
    /\ norm = <<>>
    /\ max_pages = 1
    /\ wpc = "idle"
    /\ all_results = <<>>
    /\ walk_count = 0
    /\ more = "no"
    /\ next_page = NoPage
    /\ result = NoResult
    /\ fetches = 0
    /\ page_log = <<>>
    /\ stop = "none"
    /\ log = <<>>
    /\ passes = 0

\* no listing tool has been called
NoListing ==
    [tool |-> "none", pc |-> "idle", ctx |-> "none", args |-> "valid",
     page_count |-> 0, items |-> "list", cursor |-> "none", fetches |-> 0, slept |-> FALSE, dirty |-> FALSE,
     seen |-> "none", answer |-> "none"]

InitLoopIdle == loop = NoListing

\* no other tool has been called
InitCallIdle ==
    call = [tool |-> "none", pc |-> "idle", ip |-> 1, ctx |-> "none",
            args |-> "valid", env |-> TRUE, value |-> "none",
            cursor |-> "none", err |-> FALSE, answer |-> "none"]

\* a RequestManager whose execute() is called by its users
Init ==
    /\ InitManager
    /\ InitWalkIdle
    /\ InitLoopIdle
    /\ InitCallIdle
    /\ request_manager = "RequestManager"
    /\ client_initialized = FALSE

\* No coroutine is in the middle of its run: between the resolution of a
\* future and the end of _release_slot nothing else is scheduled.
LoopIdle ==
    \A r \in Requests : pc[r] # "releasing" /\ task[r] # "releasing"

\* mutant: the admission test is off by one
CanExecute_OffByOne(active, limit) == active <= limit

\* mutant: a limit that is not positive is taken as one
CanExecute_AtLeastOne(active, limit) ==
    active < (IF limit < 1 THEN 1 ELSE limit)

\* execute, line 57: the admission test
CanExecute(active, limit) == active < limit

\* mutant: the queue is served last in, first out
QueueGet_Lifo(q) == [item |-> q[Len(q)], rest |-> SubSeq(q, 1, Len(q) - 1)]

\* mutant: the head of the queue is read but not removed
QueueGet_Peek(q) == [item |-> Head(q), rest |-> q]

\* asyncio.Queue.get of _release_slot, line 89: the item and the queue left
QueueGet(q) == [item |-> Head(q), rest |-> Tail(q)]

\* mutant: the counter is decremented also when the slot is handed over
ReleasedActive_Always(q, active) == active - 1

\* mutant: the counter is not decremented
ReleasedActive_Never(q, active) == active

\* _release_slot, lines 88-92: the counter after the critical section
ReleasedActive(q, active) == IF q # <<>> THEN active ELSE active - 1

\* execute, lines 46-69 (admitted) or 46-66 and 79 (queued): what the call
\* does to the RequestManager and to its own request
Admit(r) ==
    /\ IF CanExecute(active_requests, concurrent_limit)
       THEN /\ active_requests' = active_requests + 1
            /\ pc' = [pc EXCEPT ![r] = "running"]
            /\ runs' = [runs EXCEPT ![r] = @ + 1]
            /\ acquired' = [acquired EXCEPT ![r] = @ + 1]
            /\ UNCHANGED <<request_queue, task, enqueued>>
       ELSE /\ request_queue' = Append(request_queue, r)
            /\ enqueued' = Append(enqueued, r)
            /\ pc' = [pc EXCEPT ![r] = "waiting"]
            /\ task' = [task EXCEPT ![r] = "queued"]
            /\ UNCHANGED <<active_requests, runs, acquired>>
    /\ UNCHANGED <<concurrent_limit, future, outcome, received, released,
                   dequeued>>

\* a call of execute(); the calls are numbered in the order they are made
Execute(r) ==
    /\ LoopIdle
    /\ pc[r] = "new"
    /\ \A s \in Requests : s < r => pc[s] # "new"
    /\ Admit(r)
    /\ UNCHANGED toolVars
    /\ UNCHANGED walkVars
    /\ UNCHANGED loop

\* mutant: the slot is released without looking at the queue
ReleaseSlot_NoHandOver(r, t) ==
    /\ active_requests' = active_requests - 1
    /\ released' = [released EXCEPT ![r] = @ + 1]
    /\ task' = t
    /\ UNCHANGED <<request_queue, dequeued, acquired>>

\* _release_slot, lines 81-97, called for request r whose call has ended;
\* t is the task map with r's own step applied.  The head of the queue is
\* dequeued and keeps the slot (a task is created for it, line 97), or the
\* counter is decremented.
ReleaseSlot(r, t) ==
    /\ active_requests' = ReleasedActive(request_queue, active_requests)
    /\ released' = [released EXCEPT ![r] = @ + 1]
    /\ IF request_queue # <<>>
       THEN LET got == QueueGet(request_queue) IN
            /\ request_queue' = got.rest
            /\ dequeued' = Append(dequeued, got.item)
            /\ task' = [t EXCEPT ![got.item] = "handed"]
            /\ acquired' = [acquired EXCEPT ![got.item] = @ + 1]
       ELSE /\ task' = t
            /\ UNCHANGED <<request_queue, dequeued, acquired>>

\* execute, lines 69-72: the function of an admitted request returns or
\* raises and the future is resolved
FuncEnds(r) ==
    /\ LoopIdle
    /\ pc[r] = "running"
    /\ \E o \in {"ok", "err"} :
        /\ outcome' = [outcome EXCEPT ![r] = o]
        /\ future' = [future EXCEPT ![r] = IF o = "ok" THEN Ok(r) ELSE Err(r)]
    /\ pc' = [pc EXCEPT ![r] = "releasing"]
    /\ UNCHANGED <<concurrent_limit, active_requests, request_queue, task,
                   received, runs, acquired, released, enqueued, dequeued>>
    /\ UNCHANGED toolVars
    /\ UNCHANGED walkVars
    /\ UNCHANGED loop

\* the caller of execute() is cancelled while line 69 awaits the function:
\* CancelledError is thrown into the function, is not an Exception (line 71
\* does not catch it) and reaches the finally clause
CancelInFlight(r) ==
    /\ LoopIdle
    /\ pc[r] = "running"
    /\ outcome' = [outcome EXCEPT ![r] = "cancel"]
    /\ pc' = [pc EXCEPT ![r] = "releasing"]
    /\ UNCHANGED <<concurrent_limit, active_requests, request_queue, task,
                   future, received, runs, acquired, released, enqueued,
                   dequeued>>
    /\ UNCHANGED toolVars
    /\ UNCHANGED walkVars
    /\ UNCHANGED loop

\* execute, lines 73-79: what the caller gets once the finally clause is
\* done: the result of the future (line 79), the error raised again (line
\* 73), or the CancelledError that went through
Handed(r, o, fut) ==
    CASE o = "ok" -> fut
      [] o = "err" -> Err(r)
      [] OTHER -> Cancelled

\* the answer of execute() to its caller, lines 73 and 79
Answer(r) ==
    /\ pc' = [pc EXCEPT ![r] =
                CASE outcome[r] = "ok" -> "returned"
                  [] outcome[r] = "err" -> "raised"
                  [] OTHER -> "cancelled"]
    /\ received' = [received EXCEPT ![r] = Handed(r, outcome[r], future[r])]

\* mutant: the slot is released after a success only, not in a finally clause
ReleaseImmediate_NoFinally(r) ==
    /\ pc[r] = "releasing"
    /\ IF outcome[r] = "ok"
       THEN ReleaseSlot(r, task)
       ELSE UNCHANGED <<active_requests, released, request_queue, dequeued,
                        task, acquired>>
    /\ Answer(r)
    /\ UNCHANGED <<concurrent_limit, future, outcome, runs, enqueued>>
    /\ UNCHANGED toolVars
    /\ UNCHANGED walkVars
    /\ UNCHANGED loop

\* mutant: the slot is released after a success and in the handler of
\* Exception, which a cancellation does not enter
ReleaseImmediate_CancelLeaks(r) ==
    /\ pc[r] = "releasing"
    /\ IF outcome[r] \in {"ok", "err"}
       THEN ReleaseSlot(r, task)
       ELSE UNCHANGED <<active_requests, released, request_queue, dequeued,
                        task, acquired>>
    /\ Answer(r)
    /\ UNCHANGED <<concurrent_limit, future, outcome, runs, enqueued>>
    /\ UNCHANGED toolVars
    /\ UNCHANGED walkVars
    /\ UNCHANGED loop

\* execute, lines 74-79: the finally clause, then the return or the raise
ReleaseImmediate(r) ==
    /\ pc[r] = "releasing"
    /\ ReleaseSlot(r, task)
    /\ Answer(r)
    /\ UNCHANGED <<concurrent_limit, future, outcome, runs, enqueued>>
    /\ UNCHANGED toolVars
    /\ UNCHANGED walkVars
    /\ UNCHANGED loop

\* _execute_queued_task, line 107: the task created by _release_slot starts
\* and invokes the function
StartQueued(r) ==
    /\ LoopIdle
    /\ task[r] = "handed"
    /\ task' = [task EXCEPT ![r] = "running"]
    /\ runs' = [runs EXCEPT ![r] = @ + 1]
    /\ UNCHANGED <<concurrent_limit, active_requests, request_queue, pc,
                   future, outcome, received, acquired, released, enqueued,
                   dequeued>>
    /\ UNCHANGED toolVars
    /\ UNCHANGED walkVars
    /\ UNCHANGED loop

\* Future.set_result / set_exception, lines 108 and 110: a pending future is
\* resolved; on a cancelled future both raise InvalidStateError and the
\* future stays cancelled
Resolve(fut, value) == IF fut.kind = "pending" THEN value ELSE fut

\* _execute_queued_task, lines 107-110: what the end of the function does
\* to the future.  A result and an Exception are set on it; a
\* CancelledError, raised in the function or thrown into it, is no
\* Exception: line 109 does not catch it and the future is left as it is
Settle(fut, r, o) ==
    CASE o = "ok" -> Resolve(fut, Ok(r))
      [] o = "err" -> Resolve(fut, Err(r))
      [] OTHER -> fut

\* _execute_queued_task, lines 107-110: the function of a queued request
\* returns, raises an Exception, or ends by CancelledError
QueuedFuncEnds(r) ==
    /\ LoopIdle
    /\ task[r] = "running"
    /\ \E o \in {"ok", "err", "cancel"} :
        /\ outcome' = [outcome EXCEPT ![r] = o]
        /\ future' = [future EXCEPT ![r] = Settle(@, r, o)]
    /\ task' = [task EXCEPT ![r] = "releasing"]
    /\ UNCHANGED <<concurrent_limit, active_requests, request_queue, pc,
                   received, runs, acquired, released, enqueued, dequeued>>
    /\ UNCHANGED toolVars
    /\ UNCHANGED walkVars
    /\ UNCHANGED loop

\* _execute_queued_task, lines 111-113: the finally clause
ReleaseQueued(r) ==
    /\ task[r] = "releasing"
    /\ ReleaseSlot(r, [task EXCEPT ![r] = "finished"])
    /\ UNCHANGED <<concurrent_limit, pc, future, outcome, received, runs,
                   enqueued>>
    /\ UNCHANGED toolVars
    /\ UNCHANGED walkVars
    /\ UNCHANGED loop

\* mutant: the waiter runs as soon as the future is resolved, before the
\* resolving coroutine has reached the end of _release_slot
WakeWaiter_Early(r) ==
    /\ pc[r] = "waiting"
    /\ future[r].kind \in {"ok", "err"}
    /\ pc' = [pc EXCEPT ![r] = IF future[r].kind = "ok" THEN "returned"
                                                        ELSE "raised"]
    /\ received' = [received EXCEPT ![r] = future[r]]
    /\ UNCHANGED <<concurrent_limit, active_requests, request_queue, task,
                   future, outcome, runs, acquired, released, enqueued,
                   dequeued>>
    /\ UNCHANGED toolVars
    /\ UNCHANGED walkVars
    /\ UNCHANGED loop

\* execute, line 79: the caller suspended on the future is woken by the
\* callback that the resolution scheduled
WakeWaiter(r) ==
    /\ LoopIdle
    /\ pc[r] = "waiting"
    /\ future[r].kind \in {"ok", "err"}
    /\ pc' = [pc EXCEPT ![r] = IF future[r].kind = "ok" THEN "returned"
                                                        ELSE "raised"]
    /\ received' = [received EXCEPT ![r] = future[r]]
    /\ UNCHANGED <<concurrent_limit, active_requests, request_queue, task,
                   future, outcome, runs, acquired, released, enqueued,
                   dequeued>>
    /\ UNCHANGED toolVars
    /\ UNCHANGED walkVars
    /\ UNCHANGED loop

\* Task.cancel() on the caller of execute() while line 79 awaits the future:
\* the pending future the caller waits on is cancelled at once, in the run
\* of the coroutine that calls cancel(); the caller itself is resumed in a
\* later run of the event loop, and other callbacks run in between
CancelRequested(r) ==
    /\ LoopIdle
    /\ pc[r] = "waiting"
    /\ future[r] = Pending
    /\ future' = [future EXCEPT ![r] = Cancelled]
    /\ UNCHANGED <<concurrent_limit, active_requests, request_queue, pc, task,
                   outcome, received, runs, acquired, released, enqueued,
                   dequeued>>
    /\ UNCHANGED toolVars
    /\ UNCHANGED walkVars
    /\ UNCHANGED loop

\* execute, line 79: the caller is resumed with CancelledError, by the
\* callback of the future that Task.cancel() cancelled; a caller cancelled
\* when its future was already resolved (the future keeps its value, the
\* task is marked) gets CancelledError in place of the value when it is
\* resumed
CancelWaiting(r) ==
    /\ LoopIdle
    /\ pc[r] = "waiting"
    /\ future[r] # Pending
    /\ pc' = [pc EXCEPT ![r] = "cancelled"]
    /\ received' = [received EXCEPT ![r] = Cancelled]
    /\ UNCHANGED <<concurrent_limit, active_requests, request_queue, task,
                   future, outcome, runs, acquired, released, enqueued,
                   dequeued>>
    /\ UNCHANGED toolVars
    /\ UNCHANGED walkVars
    /\ UNCHANGED loop

\* ------------------------------------------------------- OktaMcpClient
\* the property client, lines 26-31, and _initialize_client, lines 33-45:
\* a client that was handed in or was created before is returned; else one
\* is created when OKTA_CLIENT_ORGURL and OKTA_API_TOKEN are both set
\* (configured), and ValueError is raised when they are not
ClientReady(configured) == client_initialized \/ configured

\* line 39: the ValueError of _initialize_client
ConfigurationError == [kind |-> "ValueError", val |-> 0]
\* lines 94 and 98: func.__name__ of a callable that has no such attribute
MissingName == [kind |-> "AttributeError", val |-> 0]

\* execute_api_call raises before the function is invoked and before the
\* RequestManager is touched
RaiseEarly(r, e) ==
    /\ pc' = [pc EXCEPT ![r] = "raised"]
    /\ received' = [received EXCEPT ![r] = e]
    /\ UNCHANGED <<concurrent_limit, active_requests, request_queue, task,
                   future, outcome, runs, acquired, released, enqueued,
                   dequeued>>

\* execute_api_call, lines 76-99.  Line 90 reads the property client, which
\* creates the SDK client or raises; lines 94 and 98 format func.__name__
\* into the log line (named: the callable has that attribute); then the
\* function goes through the RequestManager when the client was given one
\* (line 95), else it is awaited directly (line 99).
ExecuteApiCall(r) ==
    /\ LoopIdle
    /\ pc[r] = "new"
    /\ \A s \in Requests : s < r => pc[s] # "new"
    /\ \E configured \in BOOLEAN, named \in BOOLEAN :
        IF ~ClientReady(configured)
        THEN /\ RaiseEarly(r, ConfigurationError)
             /\ UNCHANGED client_initialized
        ELSE /\ client_initialized' = TRUE
             /\ IF ~named
                THEN RaiseEarly(r, MissingName)
                ELSE IF request_manager # "None"
                     THEN Admit(r)
                     ELSE /\ pc' = [pc EXCEPT ![r] = "direct"]
                          /\ runs' = [runs EXCEPT ![r] = @ + 1]
                          /\ UNCHANGED <<concurrent_limit, active_requests,
                                         request_queue, task, future, outcome,
                                         received, acquired, released,
                                         enqueued, dequeued>>
    /\ UNCHANGED <<request_manager, call>>
    /\ UNCHANGED walkVars
    /\ UNCHANGED loop

\* execute_api_call, line 99: the function awaited directly returns or raises
DirectEnds(r) ==
    /\ LoopIdle
    /\ pc[r] = "direct"
    /\ \E o \in {"ok", "err"} :
        /\ outcome' = [outcome EXCEPT ![r] = o]
        /\ pc' = [pc EXCEPT ![r] = IF o = "ok" THEN "returned" ELSE "raised"]
        /\ received' = [received EXCEPT ![r] =
                          IF o = "ok" THEN Ok(r) ELSE Err(r)]
    /\ UNCHANGED <<concurrent_limit, active_requests, request_queue, task,
                   future, runs, acquired, released, enqueued, dequeued>>
    /\ UNCHANGED toolVars
    /\ UNCHANGED walkVars
    /\ UNCHANGED loop

\* the task that awaits execute_api_call is cancelled while line 99 awaits
\* the function: CancelledError is thrown into the function and goes
\* through execute_api_call, which has no handler
DirectCancelled(r) ==
    /\ LoopIdle
    /\ pc[r] = "direct"
    /\ outcome' = [outcome EXCEPT ![r] = "cancel"]
    /\ pc' = [pc EXCEPT ![r] = "cancelled"]
    /\ received' = [received EXCEPT ![r] = Cancelled]
    /\ UNCHANGED <<concurrent_limit, active_requests, request_queue, task,
                   future, runs, acquired, released, enqueued, dequeued>>
    /\ UNCHANGED toolVars
    /\ UNCHANGED walkVars
    /\ UNCHANGED loop

\* ---------------------------------------------------------- tool layer
\* list_okta_group_users of tools/group_tools.py; the other listing tools
\* issue their upstream calls in the same way.
managerVars == <<concurrent_limit, active_requests, request_queue, pc, task,
                 future, outcome, received, runs, acquired, released,
                 enqueued, dequeued>>

\* group_tools.py line 363: the safety check on the number of pages
PageSafetyLimit == 50

Next ==
    \/ \E r \in Requests : Execute(r)
    \/ \E r \in Requests : FuncEnds(r)
    \/ \E r \in Requests : CancelInFlight(r)
    \/ \E r \in Requests : ReleaseImmediate(r)
    \/ \E r \in Requests : StartQueued(r)
    \/ \E r \in Requests : QueuedFuncEnds(r)
    \/ \E r \in Requests : ReleaseQueued(r)
    \/ \E r \in Requests : WakeWaiter(r)
    \/ \E r \in Requests : CancelRequested(r)
    \/ \E r \in Requests : CancelWaiting(r)

Spec == Init /\ [][Next]_vars

\* __init__, lines 18-29, stores the limit it is given, whatever its sign:
\* a RequestManager constructed with any limit
InitAnyLimit ==
    /\ concurrent_limit \in (0 - MaxDeficit)..MaxLimit
    /\ active_requests = 0
    /\ request_queue = <<>>
    /\ pc = [r \in Requests |-> "new"]
    /\ task = [r \in Requests |-> "none"]
    /\ future = [r \in Requests |-> Pending]
    /\ outcome = [r \in Requests |-> "none"]
    /\ received = [r \in Requests |-> Nothing]
    /\ runs = [r \in Requests |-> 0]
    /\ acquired = [r \in Requests |-> 0]
    /\ released = [r \in Requests |-> 0]
    /\ enqueued = <<>>
    /\ dequeued = <<>>
    /\ InitWalkIdle
    /\ InitLoopIdle
    /\ InitCallIdle
    /\ request_manager = "RequestManager"
    /\ client_initialized = FALSE

SpecAnyLimit == InitAnyLimit /\ [][Next]_vars

\* the scheduling of the event loop: a created task and a woken waiter are
\* run, a coroutine that runs reaches its next suspension; and the premise
\* of the liveness claims: a submitted function returns or raises
Fairness ==
    \A r \in Requests :
        /\ WF_vars(FuncEnds(r))
        /\ WF_vars(ReleaseImmediate(r))
        /\ WF_vars(StartQueued(r))
        /\ WF_vars(QueuedFuncEnds(r))
        /\ WF_vars(ReleaseQueued(r))
        /\ WF_vars(WakeWaiter(r))
        /\ WF_vars(CancelWaiting(r))

SpecLive == Init /\ [][Next]_vars /\ Fairness

\* ------------------------------------------ normalizing and walking
\* utils/normalize_okta_responses.py

\* the truth value Python gives a value: None and empty containers are false
Truthy(v) ==
    CASE v.type = "None" -> FALSE
      [] v.type = "list" -> Len(v.items) > 0
      [] v.type = "tuple" -> Len(v.elems) > 0
      [] OTHER -> TRUE

\* lines 50-51 and 74-75: `for r in v` and len(v) work, on a list and on
\* a tuple
Iterable(v) == v.type \in {"list", "tuple"}

\* an element of a tuple taken as an item of a page: None and the empty
\* containers are false, and none of these values has as_dict
ItemOf(e) == IF Truthy(e) THEN -1 ELSE 0

\* the items that `for r in v` goes through
ItemsOf(v) ==
    IF v.type = "list" THEN v.items
    ELSE [i \in 1..Len(v.elems) |-> ItemOf(v.elems[i])]

\* hasattr(v, 'has_next')
HasHasNext(v) == v.type = "response"

\* line 39: getattr(response, 'response', None)
GetResponseAttr_None(v) == NoneV

GetResponseAttr(v) == IF v.type = "object" THEN v.attr ELSE NoneV

\* lines 28-39: normalize_okta_response, as the triple (results, resp, err)
NormalizeResponse_DropError(x) ==
    IF x.type = "tuple"
    THEN IF Len(x.elems) \in {2, 3}
         THEN <<x.elems[1], x.elems[2], NoneV>>
         ELSE <<NoneV, NoneV, ShapeError(x)>>
    ELSE <<x, GetResponseAttr(x), NoneV>>

NormalizeResponse_NoShapeCheck(x) ==
    IF x.type = "tuple" /\ Len(x.elems) = 3
    THEN x.elems
    ELSE IF x.type = "tuple" /\ Len(x.elems) = 2
         THEN <<x.elems[1], x.elems[2], NoneV>>
         ELSE <<x, GetResponseAttr(x), NoneV>>

NormalizeResponse_No3(x) ==
    IF x.type = "tuple"
    THEN IF Len(x.elems) = 2
         THEN <<x.elems[1], x.elems[2], NoneV>>
         ELSE <<NoneV, NoneV, ShapeError(x)>>
    ELSE <<x, GetResponseAttr(x), NoneV>>

NormalizeResponse(x) ==
    IF x.type = "tuple"
    THEN IF Len(x.elems) = 3
         THEN x.elems
         ELSE IF Len(x.elems) = 2
              THEN <<x.elems[1], x.elems[2], NoneV>>
              ELSE <<NoneV, NoneV, ShapeError(x)>>
    ELSE <<x, GetResponseAttr(x), NoneV>>

\* lines 50 and 74: `r and hasattr(r, 'as_dict')`
ItemTruthy(i) == i # 0
HasAsDict(i) == i > 0
Valid_KeepInvalid(i) == ItemTruthy(i)

Valid(i) == ItemTruthy(i) /\ HasAsDict(i)

\* lines 50 and 74: the list comprehension over one page
ValidItems(page) == SelectSeq(page, Valid)

\* line 58: page_count < max_pages
WithinBudget_Unbounded == TRUE

WithinBudget == walk_count < max_pages

\* line 44: `if initial_err`
InitialError_Ignored == FALSE

InitialError == Truthy(norm[3])

\* lines 45 and 83: the tuple (results, response, err, page_count) returned
Returned(results, err, n) ==
    [kind |-> "returned", results |-> results, resp |-> norm[2],
     err |-> err, page_count |-> n]

\* line 50 raises outside the try statement of line 57
Raised == [kind |-> "raised"]

\* lines 82-83: the walk is over and returns what it has accumulated
WalkReturn_BudgetRaises(results, reason) ==
    IF reason = "budget"
    THEN /\ result' = Raised
         /\ wpc' = "raised"
         /\ stop' = reason
    ELSE /\ result' = Returned(ListV(results), NoneV, walk_count)
         /\ wpc' = "done"
         /\ stop' = reason

WalkReturn(results, reason) ==
    /\ result' = Returned(ListV(results), NoneV, walk_count)
    /\ wpc' = "done"
    /\ stop' = reason

\* lines 34-35: logger.error(f"Unexpected response format with
\* {len(response)} elements"), for a tuple of another length than 2 and 3
NormalizeLog(x) ==
    IF x.type = "tuple" /\ Len(x.elems) \notin {2, 3}
    THEN <<[level |-> "error", msg |-> "Unexpected response format",
            elements |-> Len(x.elems)]>>
    ELSE <<>>

\* an upstream call has returned `raw`: normalize_okta_response(raw); or
\* the 3-tuple it returned is normalized once more
Normalize ==
    /\ wpc \in {"raw", "normalized"}
    /\ passes < MaxPasses
    /\ LET x == IF wpc = "raw" THEN raw ELSE TupleV(norm) IN
         /\ norm' = NormalizeResponse(x)
         /\ log' = log \o NormalizeLog(x)
    /\ passes' = passes + 1
    /\ wpc' = "normalized"
    /\ UNCHANGED <<raw, max_pages, all_results, walk_count, more, next_page,
                   result, fetches, page_log, stop>>
    /\ UNCHANGED toolVars
    /\ UNCHANGED managerVars
    /\ UNCHANGED loop

\* lines 42-54: paginate_okta_response is called with the normalized triple.
\* A true error returns at once (line 45); results that cannot be iterated
\* raise TypeError at line 50; otherwise the valid items of the initial page
\* seed the aggregate.
WalkBegin ==
    /\ wpc = "normalized"
    /\ IF InitialError
       THEN /\ result' = Returned(norm[1], norm[3], 1)
            /\ wpc' = "done"
            /\ stop' = "initial_error"
            /\ UNCHANGED <<all_results, walk_count, more, page_log>>
       ELSE IF ~Iterable(norm[1])
            THEN /\ result' = Raised
                 /\ wpc' = "raised"
                 /\ stop' = "crash"
                 /\ UNCHANGED <<all_results, walk_count, more, page_log>>
            ELSE /\ all_results' = ValidItems(ItemsOf(norm[1]))
                 /\ walk_count' = 1
                 /\ more' = IF HasHasNext(norm[2]) THEN norm[2].more ELSE "no"
                 /\ page_log' = <<ItemsOf(norm[1])>>
                 /\ wpc' = "loop"
                 /\ UNCHANGED <<result, stop>>
    /\ UNCHANGED <<raw, norm, max_pages, next_page, fetches, log, passes>>
    /\ UNCHANGED toolVars
    /\ UNCHANGED managerVars
    /\ UNCHANGED loop

\* lines 58-67: the test of the while loop.  When it passes, the page is
\* counted (line 64) and response.next() is awaited (line 67); when it
\* fails, or has_next() raises (line 79), the walk returns (line 83).
WalkTest ==
    /\ wpc = "loop"
    /\ IF WithinBudget /\ Truthy(norm[2]) /\ HasHasNext(norm[2])
       THEN IF more = "yes"
            THEN /\ walk_count' = walk_count + 1
                 /\ fetches' = fetches + 1
                 /\ wpc' = "fetching"
                 /\ UNCHANGED <<result, stop>>
            ELSE /\ WalkReturn(all_results,
                               IF more = "raises" THEN "exception"
                               ELSE "no_more")
                 /\ UNCHANGED <<walk_count, fetches>>
       ELSE /\ WalkReturn(all_results,
                          IF ~WithinBudget THEN "budget" ELSE "no_cursor")
            /\ UNCHANGED <<walk_count, fetches>>
    /\ UNCHANGED <<raw, norm, max_pages, all_results, more, next_page,
                   page_log, log, passes>>
    /\ UNCHANGED toolVars
    /\ UNCHANGED managerVars
    /\ UNCHANGED loop

\* what response.next() does: it returns (items, None), or (None, error),
\* or (None, None), or raises
NextOutcomes ==
    {[kind |-> "page", items |-> ListV(p), err |-> NoneV] : p \in PageSamples}
    \cup {[kind |-> "page", items |-> TupleV(<<NoneV>>), err |-> NoneV],
          [kind |-> "error", items |-> NoneV, err |-> ErrorV("E")],
          [kind |-> "no_items", items |-> NoneV, err |-> NoneV],
          [kind |-> "raise", items |-> NoneV, err |-> NoneV]}

\* lines 78: all_results.extend(valid_users)
Extend_Restart(results, page) == ValidItems(page)

Extend(results, page) == results \o ValidItems(page)

\* lines 67-80: response.next() ends.  An error breaks the loop (line 71);
\* an exception, of next() or of the comprehension of line 74, is caught
\* (line 79); the valid items of a page extend the aggregate (line 78) and
\* the loop test follows.
WalkNextEnds ==
    /\ wpc = "fetching"
    /\ \E o \in NextOutcomes :
        /\ next_page' = o
        /\ IF o.kind = "raise"
           THEN /\ WalkReturn(all_results, "exception")
                /\ UNCHANGED <<all_results, more, page_log>>
           ELSE IF Truthy(o.err)
                THEN /\ WalkReturn(all_results, "error")
                     /\ UNCHANGED <<all_results, more, page_log>>
                ELSE IF ~Iterable(o.items)
                     THEN /\ WalkReturn(all_results, "exception")
                          /\ UNCHANGED <<all_results, more, page_log>>
                     ELSE /\ all_results' = Extend(all_results, ItemsOf(o.items))
                          /\ page_log' = Append(page_log, ItemsOf(o.items))
                          /\ \E m \in {"yes", "no", "raises"} :
                                /\ m = "yes" => fetches < CursorHorizon
                                /\ more' = m
                          /\ wpc' = "loop"
                          /\ UNCHANGED <<result, stop>>
    /\ UNCHANGED <<raw, norm, max_pages, walk_count, fetches, log, passes>>
    /\ UNCHANGED toolVars
    /\ UNCHANGED managerVars
    /\ UNCHANGED loop

\* the task that awaits paginate_okta_response is cancelled, or next()
\* itself is, while line 67 awaits response.next(): CancelledError is no
\* Exception, the handler of line 79 lets it through and the walk raises
WalkCancelled ==
    /\ wpc = "fetching"
    /\ result' = Raised
    /\ wpc' = "raised"
    /\ stop' = "cancelled"
    /\ UNCHANGED <<raw, norm, max_pages, all_results, walk_count, more,
                   next_page, fetches, page_log, log, passes>>
    /\ UNCHANGED toolVars
    /\ UNCHANGED managerVars
    /\ UNCHANGED loop

\* an upstream call has returned any of the raw responses, and the page
\* budget PAGINATION_LIMIT (line 10) is any of the configured ones
InitWalk ==
    /\ InitManager
    /\ concurrent_limit = MaxLimit
    /\ InitLoopIdle
    /\ InitCallIdle
    /\ request_manager = "None"
    /\ client_initialized = FALSE
    /\ raw \in RawResponses
    /\ max_pages \in 1..MaxBudget
    /\ wpc = "raw"
    /\ norm = <<>>
    /\ all_results = <<>>
    /\ walk_count = 0
    /\ more = "no"
    /\ next_page = NoPage
    /\ result = NoResult
    /\ fetches = 0
    /\ page_log = <<>>
    /\ stop = "none"
    /\ log = <<>>
    /\ passes = 0

NextWalk ==
    \/ Normalize
    \/ WalkBegin
    \/ WalkTest
    \/ WalkNextEnds
    \/ WalkCancelled

SpecWalk == InitWalk /\ [][NextWalk]_vars

\* the coroutine runs to its next suspension, and an awaited next() ends
FairnessWalk ==
    /\ WF_vars(Normalize)
    /\ WF_vars(WalkBegin)
    /\ WF_vars(WalkTest)
    /\ WF_vars(WalkNextEnds)

SpecWalkLive == InitWalk /\ [][NextWalk]_vars /\ FairnessWalk

\* ------------------------------------------- page loops of the tools
\* tools/group_tools.py list_okta_group_users (lines 307-406),
\* tools/apps_tools.py list_okta_application_users (292-381) and
\* list_okta_application_groups (416-505), tools/log_events_tools.py
\* get_okta_event_logs (92-196), and the tool without a page loop
\* tools/user_tools.py list_okta_users (64-159).  `loop` is one call of
\* one of them: its position pc, the Context it was given (ctx), whether
\* its arguments pass the validation (args), its page_count, what its list
\* of results is (items: a list, or an object that is no list), what
\* has_next() of its cursor answers (cursor), and whether the list holds an
\* item that has no as_dict (dirty).  History: fetches counts the next()
\* calls, slept tells whether asyncio.sleep came before the next() that is
\* awaited, seen is the upstream error that occurred, answer is how the
\* call ended.
GroupUsers == "list_okta_group_users"
AppUsers == "list_okta_application_users"
AppGroups == "list_okta_application_groups"
EventLogs == "get_okta_event_logs"
ListUsers == "list_okta_users"

LoopTools == {GroupUsers, AppUsers, AppGroups, EventLogs}
ListingTools == LoopTools \cup {ListUsers}

\* log_events_tools.py line 155: the safety check of the event logs
LogPageSafetyLimit == 20

\* group_tools.py 363, apps_tools.py 340 and 464, log_events_tools.py 155:
\* `if page_count > 50` (20 for the event logs)
PageLimit(tool) ==
    IF tool = EventLogs THEN LogPageSafetyLimit ELSE PageSafetyLimit

LimitReached_Never(tool, n) == FALSE

LimitReached(tool, n) == n > PageLimit(tool)

\* group_tools.py 350, apps_tools.py 327 and 451: asyncio.sleep(0.2) before
\* resp.next(); log_events_tools.py 141 awaits resp.next() at once
Sleeps(tool) == tool \in {GroupUsers, AppUsers, AppGroups}

\* log_events_tools.py 135: `hasattr(resp, 'has_next')` in the loop test
ChecksHasNext(tool) == tool = EventLogs

\* log_events_tools.py 148: the pages are filtered; the other loops extend
\* their list by the page as it came
FiltersPages(tool) == tool = EventLogs

\* texts of upstream errors
ErrorTexts ==
    {"API rate limit exceeded", "HTTP 429 Too Many Requests",
     "Resource not found"}

\* group_tools.py 394-395 (apps_tools.py 371-372 and 495-496,
\* log_events_tools.py 186-187): 'rate limit' in str(e).lower() or
\* 'too many requests' in str(e).lower()
IsRateLimitText(t) ==
    t \in {"API rate limit exceeded", "HTTP 429 Too Many Requests"}

ErrorKind(t) == IF IsRateLimitText(t) THEN "rate_limit" ELSE "other"

\* the handler `except Exception` of the tool: group_tools.py 392-406 tests
\* the text for a rate limit; user_tools.py 155-159 does not
Handler(tool, t) ==
    IF tool \in LoopTools /\ IsRateLimitText(t) THEN "rate_limit" ELSE "error"

\* a cursor is not asked for more pages than this
LoopHorizon == PageSafetyLimit + 2

\* the places where a tool awaits its Context (`if ctx: await ctx.info(...)`,
\* report_progress, error, warning), named by what they stand before:
\*   ctx_begin    before the validation   group_tools.py 310-311,
\*                                        log_events_tools.py 95
\*   ctx_request  before the first call   group_tools.py 320-328,
\*                                        apps_tools.py 307 and 431,
\*                                        log_events_tools.py 120
\*   ctx_error    error of the first call group_tools.py 337
\*   ctx_page     each turn of the loop   group_tools.py 346-347,
\*                                        apps_tools.py 324 and 448,
\*                                        log_events_tools.py 138
\*   ctx_break    a break of the loop     group_tools.py 355, 365, 372
\*   ctx_done     after the loop          group_tools.py 376-377,
\*                                        apps_tools.py 354 and 478,
\*                                        log_events_tools.py 168,
\*                                        user_tools.py 110
\*   ctx_handler  in `except Exception`   group_tools.py 405
CtxBlocks ==
    {"ctx_begin", "ctx_request", "ctx_error", "ctx_page", "ctx_break",
     "ctx_done", "ctx_handler"}

Notifies(tool, b) ==
    CASE b = "ctx_begin" -> tool \in {GroupUsers, EventLogs}
      [] b = "ctx_request" -> tool \in LoopTools
      [] b = "ctx_error" -> tool = GroupUsers
      [] b = "ctx_page" -> tool \in LoopTools
      [] b = "ctx_break" -> tool = GroupUsers
      [] b = "ctx_done" -> tool \in ListingTools
      [] b = "ctx_handler" -> tool = GroupUsers
      [] OTHER -> FALSE

\* the call is over
Ends(l, a) == [l EXCEPT !.pc = "done", !.answer = a]

\* an await of the Context raises anyio.ClosedResourceError, the client is
\* gone.  In the body of the tool the handler of group_tools.py 388-390
\* returns None; the await of line 405 stands in the handler `except
\* Exception` itself and the error leaves the tool.
ClosedAt(l, b) ==
    Ends([l EXCEPT !.ctx = "closed"],
           IF b = "ctx_handler" THEN "raised" ELSE "null")

\* the awaits of block b, followed by one of the continuations K.  Without
\* a Context, and where the tool has no await at b, K follows at once.
\* With a Context the awaits return without suspending, or suspend (the
\* tool stands at b), or raise ClosedResourceError.
Through(l, b, K) ==
    IF l.ctx = "none" \/ ~Notifies(l.tool, b)
    THEN K
    ELSE K \cup {[l EXCEPT !.pc = b], ClosedAt(l, b)}

\* an exception reaches `except Exception` of the tool (group_tools.py
\* 392-406): the rate-limit answer, or ctx.error and handle_okta_result
Fail(l, t) ==
    IF Handler(l.tool, t) = "rate_limit"
    THEN {Ends(l, "rate_limit")}
    ELSE Through(l, "ctx_handler", {Ends(l, "error")})

\* group_tools.py 334-338: normalize_okta_response gave an error, returned
\* through handle_okta_result
ReturnError(l) == Through(l, "ctx_error", {Ends(l, "error")})

\* group_tools.py 379-386: the result is built: as_dict() is called on
\* every item, which raises on an item without it and on a list that is no
\* list
BuildResult(l) ==
    IF l.dirty \/ l.items = "object"
    THEN Fail(l, "object has no attribute")
    ELSE {Ends(l, "result")}

\* user_tools.py 113-149: list_okta_users asks has_next() once and compares
\* len(users), then builds its result
UsersResult(l) ==
    IF \/ l.dirty
       \/ l.cursor \in {"object", "raises"}
       \/ (l.cursor = "yes" /\ l.items = "none")
    THEN Fail(l, "object has no attribute")
            \cup (IF l.cursor = "raises" THEN {Ends(l, "null")} ELSE {})
    ELSE {Ends(l, "result")}

\* group_tools.py 375-386: the loop is over
AfterLoop(l) == Through(l, "ctx_done", BuildResult(l))

\* group_tools.py 353-356, 363-366 and 370-373: a break of the loop that
\* tells the Context first
Break(l) == Through(l, "ctx_break", AfterLoop(l))

\* group_tools.py 349-351: the body of the loop: the sleep, or next() at
\* once (log_events_tools.py 141)
Iterate(l) ==
    IF Sleeps(l.tool)
    THEN {[l EXCEPT !.pc = "sleep"]}
    ELSE {[l EXCEPT !.pc = "next", !.fetches = @ + 1, !.slept = FALSE]}

\* group_tools.py 344: the loop test.  A cursor that is None ends the loop,
\* and so does has_next() = False; a cursor without has_next raises
\* AttributeError where hasattr is not tested, and an exception of
\* has_next() is not caught by the try of the loop body either: both reach
\* the handlers of the tool (ClosedResourceError that of lines 388-390).
LoopTest(l) ==
    CASE l.cursor \in {"none", "no"} -> AfterLoop(l)
      [] l.cursor = "object" ->
            IF ChecksHasNext(l.tool) THEN AfterLoop(l)
            ELSE Fail(l, "object has no attribute")
      [] l.cursor = "raises" ->
            Fail(l, "has_next failed") \cup {Ends(l, "null")}
      [] OTHER -> Through(l, "ctx_page", Iterate(l))

\* user_tools.py 106-110: list_okta_users cuts the list, which raises on an
\* object that is no list, and tells the Context
UsersPage(l) ==
    IF l.items = "object"
    THEN Fail(l, "object is not subscriptable")
    ELSE Through(l, "ctx_done", UsersResult(l))

\* group_tools.py 331: the tool reads okta_client.client, which creates the
\* SDK client or raises ValueError, and awaits client.list_group_users(...)
CallUpstream(l, ready) ==
    IF ready
    THEN {[l EXCEPT !.pc = "initial"]}
    ELSE Fail(l, "configuration is required")

\* group_tools.py 314-328: the validation of the arguments (apps_tools.py
\* 297-298 and 421-422, log_events_tools.py 114-115, user_tools.py 66-70)
\* raises ValueError; else the first call follows
Validate(l, ready) ==
    IF l.args = "invalid"
    THEN Fail(l, "cannot be empty")
    ELSE Through(l, "ctx_request", CallUpstream(l, ready))

\* group_tools.py 307-311: the tool starts
Enter(l, ready) == Through(l, "ctx_begin", Validate(l, ready))

\* what follows the awaits of the block the tool stands at
Resume(l, ready) ==
    CASE l.pc = "ctx_begin" -> Validate(l, ready)
      [] l.pc = "ctx_request" -> CallUpstream(l, ready)
      [] l.pc = "ctx_error" -> {Ends(l, "error")}
      [] l.pc = "ctx_page" -> Iterate(l)
      [] l.pc = "ctx_break" -> AfterLoop(l)
      [] l.pc = "ctx_done" ->
            IF l.tool = ListUsers THEN UsersResult(l) ELSE BuildResult(l)
      [] l.pc = "ctx_handler" -> {Ends(l, "error")}
      [] OTHER -> {}

\* okta_client.py 26-45: the property client has set _client_initialized
\* when the first call is awaited
ClientAfter(l) == client_initialized \/ l.pc = "initial"

\* one of the tools in `tools` is called, with or without a Context and
\* with arguments that pass the validation or not, and runs to its first
\* suspension
LoopCall(tools) ==
    /\ LoopIdle
    /\ loop.pc = "idle"
    /\ \E tool \in tools, c \in {"none", "open"}, a \in {"valid", "invalid"},
          configured \in BOOLEAN :
          loop' \in Enter([loop EXCEPT !.tool = tool, !.ctx = c, !.args = a],
                          ClientReady(configured))
    /\ client_initialized' = ClientAfter(loop')
    /\ UNCHANGED <<request_manager, call>>
    /\ UNCHANGED managerVars
    /\ UNCHANGED walkVars

\* the awaits of the Context the tool stands at return, or raise
\* ClosedResourceError
LoopCtxEnds ==
    /\ LoopIdle
    /\ loop.pc \in CtxBlocks
    /\ \E configured \in BOOLEAN :
          loop' \in Resume(loop, ClientReady(configured))
                        \cup {ClosedAt(loop, loop.pc)}
    /\ client_initialized' = ClientAfter(loop')
    /\ UNCHANGED <<request_manager, call>>
    /\ UNCHANGED managerVars
    /\ UNCHANGED walkVars

\* group_tools.py 331-344: the first upstream call ends.  It raises an
\* Exception (handler of lines 392-406), or anyio.ClosedResourceError, for
\* which the handler of lines 388-390 returns None; or
\* normalize_okta_response gives an error, returned through
\* handle_okta_result (lines 334-338); or it gives items and a cursor:
\* page_count = 1 and the loop test follows.
LoopInitialEnds ==
    /\ LoopIdle
    /\ loop.pc = "initial"
    /\ \/ \E t \in ErrorTexts :
            loop' \in Fail([loop EXCEPT !.seen = ErrorKind(t)], t)
       \/ loop' = Ends(loop, "null")
       \/ \E t \in ErrorTexts :
            loop' \in ReturnError([loop EXCEPT !.seen = ErrorKind(t)])
       \/ \E i \in {"none", "empty", "valid", "dirty", "object"},
             c \in {"none", "object", "yes", "no", "raises"} :
            LET l == [loop EXCEPT
                        !.items = IF i \in {"object", "none"} THEN i ELSE "list",
                        !.dirty = (i = "dirty"),
                        !.cursor = c,
                        !.page_count = 1]
            IN  loop' \in IF loop.tool = ListUsers
                          THEN UsersPage(l)
                          ELSE LoopTest([l EXCEPT !.items =
                                           IF i = "none" THEN "list" ELSE i])
    /\ UNCHANGED managerVars
    /\ UNCHANGED toolVars
    /\ UNCHANGED walkVars

\* group_tools.py 350-351: asyncio.sleep(0.2) is over, resp.next() is
\* awaited
LoopSleepEnds ==
    /\ LoopIdle
    /\ loop.pc = "sleep"
    /\ loop' = [loop EXCEPT !.pc = "next", !.fetches = @ + 1, !.slept = TRUE]
    /\ UNCHANGED managerVars
    /\ UNCHANGED toolVars
    /\ UNCHANGED walkVars

\* what the cursor answers after a page: it announces a further page for
\* no more than `horizon` fetches
CursorAfter(l, horizon) ==
    {"no", "raises"} \cup (IF l.fetches < horizon THEN {"yes"} ELSE {})

\* group_tools.py 356-368 (log_events_tools.py 148-160): a page came
\* without error.  A page without items (for the event logs: without valid
\* items) breaks the loop; otherwise the list is extended, the page is
\* counted and the safety check may break the loop.  Extending a list that
\* is no list, and filtering a page that is None, raise into the handler of
\* the loop body (group_tools.py 370-373), which breaks the loop.
LoopPage(l, page, c) ==
    LET counted == IF FiltersPages(l.tool) THEN page \in {"valid", "mixed"}
                   ELSE page \in {"valid", "mixed", "invalid"}
        m == [l EXCEPT !.cursor = c]
    IN  IF ~counted
        THEN AfterLoop(m)
        ELSE IF l.items = "object"
        THEN Break(m)
        ELSE LET n == [m EXCEPT
                         !.page_count = @ + 1,
                         !.dirty = @ \/ (~FiltersPages(l.tool) /\ page # "valid")]
             IN  IF LimitReached(l.tool, n.page_count)
                 THEN Break(n)
                 ELSE LoopTest(n)

\* group_tools.py 351-373: resp.next() ends.  An error returned breaks the
\* loop (353-356) and an exception is caught and breaks it (370-373); the
\* tool then returns what it has.
LoopNextEnds(horizon) ==
    /\ LoopIdle
    /\ loop.pc = "next"
    /\ \/ \E t \in ErrorTexts :
            loop' \in Break([loop EXCEPT !.seen = ErrorKind(t)])
       \/ \E page \in {"valid", "mixed", "invalid", "empty", "none"} :
            \E c \in CursorAfter(loop, horizon) :
                loop' \in LoopPage(loop, page, c)
    /\ UNCHANGED managerVars
    /\ UNCHANGED toolVars
    /\ UNCHANGED walkVars

\* the task of the tool call is cancelled while the tool awaits its
\* Context, the first call (group_tools.py 331), the sleep (350) or the
\* next page (351): CancelledError is no Exception, the handlers of lines
\* 370, 388 and 392 let it through and it leaves the tool
LoopCancelled ==
    /\ LoopIdle
    /\ loop.pc \in CtxBlocks \cup {"initial", "sleep", "next"}
    /\ loop' = Ends(loop, "cancelled")
    /\ UNCHANGED managerVars
    /\ UNCHANGED toolVars
    /\ UNCHANGED walkVars

\* the upstream operation the tool awaits: client.list_group_users(...)
\* (group_tools.py 331) and resp.next() (351) are methods of the SDK, not
\* okta_client.execute_api_call
Upstream(l) ==
    CASE l.pc = "initial" -> [op |-> "list", via |-> "client"]
      [] l.pc = "next" -> [op |-> "next", via |-> "client"]
      [] OTHER -> NoCall

\* one call of a listing tool on an idle server
InitLoop ==
    /\ InitManager
    /\ concurrent_limit = MaxLimit
    /\ InitWalkIdle
    /\ InitLoopIdle
    /\ InitCallIdle
    /\ request_manager = "None"
    /\ client_initialized = FALSE

NextLoop ==
    \/ LoopCall(ListingTools)
    \/ LoopCtxEnds
    \/ LoopInitialEnds
    \/ LoopSleepEnds
    \/ LoopNextEnds(LoopHorizon)
    \/ LoopCancelled

SpecLoop == InitLoop /\ [][NextLoop]_vars

\* the awaits of the Context return or raise, the sleep ends and an awaited
\* upstream call returns or raises
FairnessLoop ==
    /\ WF_vars(LoopCall(ListingTools))
    /\ WF_vars(LoopCtxEnds)
    /\ WF_vars(LoopInitialEnds)
    /\ WF_vars(LoopSleepEnds)
    /\ WF_vars(LoopNextEnds(LoopHorizon))

SpecLoopLive == InitLoop /\ [][NextLoop]_vars /\ FairnessLoop

\* ----------------------------------------------- the other tools
\* The tools that create_server registers besides the listing tools above
\* (server.py 90-102).  Each is one try statement with the handlers `except
\* anyio.ClosedResourceError: return None` and `except Exception`; its body
\* is written here as the sequence of its steps:
\*   "ctx"          `if ctx:` awaits of the Context
\*   "validate"     the arguments are checked, ValueError is raised
\*   "env"          OKTA_CLIENT_ORGURL and OKTA_API_TOKEN must be set
\*   "lookup"       `if "@" in user_id`: await okta_client.client.get_user,
\*                  return the error it gives, read user.id
\*   "call"         await a method of okta_client.client and normalize
\*   "request"      await make_async_request (policy_network_tools.py 18-35)
\*   "err"          `if err: return handle_okta_result(err, ...)`
\*   "err_ctx"      the same with `await ctx.error(...)` before the return
\*   "len"          `if ctx:` only: `len(x) if x else 0`
\*   "slice"        `x[:n] if x else []`
\*   "has_more"     `resp and resp.has_next() and len(x) == limit`
\*   "each"         `[i.as_dict() for i in x]`
\*   "one"          `x.as_dict()`
\*   "next_cursor"  `if resp and resp.has_next(): resp.get_next_cursor()`
\*   "buffer"       `if buffer_hours:` add the timedelta, await the Context
\*   "parse"        dateparser.parse gave None: await the Context, return
\*                  None
\* After the last step the tool returns its result.

\* user_tools.py 168-191
get_okta_user == <<"validate", "call", "err", "one">>

\* user_tools.py 217-260
list_okta_user_groups ==
    <<"validate", "lookup", "call", "err", "len", "ctx", "each">>

\* user_tools.py 287-334
list_okta_user_applications ==
    <<"validate", "lookup", "call", "err", "len", "ctx", "each">>

\* user_tools.py 360-403
list_okta_user_factors ==
    <<"validate", "lookup", "call", "err", "len", "ctx", "each">>

\* group_tools.py 81-158
list_okta_groups ==
    <<"ctx", "validate", "ctx", "call", "err_ctx", "ctx", "slice", "ctx",
      "has_more", "each">>

\* group_tools.py 213-243
get_okta_group ==
    <<"ctx", "validate", "ctx", "call", "err_ctx", "ctx", "one">>

\* apps_tools.py 81-162
list_okta_applications ==
    <<"validate", "ctx", "call", "err", "slice", "ctx", "has_more", "each",
      "next_cursor">>

\* apps_tools.py 216-241
get_okta_application == <<"validate", "ctx", "call", "err", "ctx", "one">>

\* policy_network_tools.py 88-129
list_okta_policy_rules ==
    <<"ctx", "validate", "ctx", "call", "err_ctx", "len", "ctx", "each">>

\* policy_network_tools.py 190-238
get_okta_policies == <<"ctx", "env", "ctx", "request", "ctx">>

\* policy_network_tools.py 315-372
get_okta_policy_rule ==
    <<"ctx", "validate", "ctx", "env", "ctx", "request", "ctx">>

\* policy_network_tools.py 451-488
list_okta_network_zones ==
    <<"ctx", "call", "err_ctx", "len", "ctx", "each">>

\* datetime_tools.py 45-67
get_current_time == <<"ctx", "buffer", "ctx">>

\* datetime_tools.py 107-135
parse_relative_time == <<"ctx", "validate", "ctx", "parse", "ctx">>

\* the tools that make an HTTP request of their own, the tools that make no
\* upstream call, and all the tools of this section
HttpTools == {"get_okta_policies", "get_okta_policy_rule"}
DatetimeTools == {"get_current_time", "parse_relative_time"}
OtherTools ==
    {"get_okta_user", "list_okta_user_groups", "list_okta_user_applications",
     "list_okta_user_factors", "list_okta_groups", "get_okta_group",
     "list_okta_applications", "get_okta_application",
     "list_okta_policy_rules", "list_okta_network_zones"}
        \cup HttpTools \cup DatetimeTools

Steps(tool) ==
    CASE tool = "get_okta_user" -> get_okta_user
      [] tool = "list_okta_user_groups" -> list_okta_user_groups
      [] tool = "list_okta_user_applications" -> list_okta_user_applications
      [] tool = "list_okta_user_factors" -> list_okta_user_factors
      [] tool = "list_okta_groups" -> list_okta_groups
      [] tool = "get_okta_group" -> get_okta_group
      [] tool = "list_okta_applications" -> list_okta_applications
      [] tool = "get_okta_application" -> get_okta_application
      [] tool = "list_okta_policy_rules" -> list_okta_policy_rules
      [] tool = "get_okta_policies" -> get_okta_policies
      [] tool = "get_okta_policy_rule" -> get_okta_policy_rule
      [] tool = "list_okta_network_zones" -> list_okta_network_zones
      [] tool = "get_current_time" -> get_current_time
      [] tool = "parse_relative_time" -> parse_relative_time
      [] OTHER -> <<>>

\* the arguments a tool is called with: they pass its validation or not
\* (list_okta_network_zones and get_okta_policies have none); a user_id is
\* a login when it holds "@" (user_tools.py 229); buffer_hours is 0, or is
\* added to the time, or overflows the timedelta (datetime_tools.py 54-55);
\* a time expression is empty, or dateparser gives None for it
ArgsOf(tool) ==
    CASE tool \in {"list_okta_user_groups", "list_okta_user_applications",
                    "list_okta_user_factors"} ->
            {"valid", "login", "invalid"}
      [] tool \in {"list_okta_network_zones", "get_okta_policies"} ->
            {"valid"}
      [] tool = "get_current_time" -> {"valid", "buffer", "invalid"}
      [] tool = "parse_relative_time" -> {"valid", "unparsed", "invalid"}
      [] OTHER -> {"valid", "invalid"}

\* group_tools.py 176-177: `if ctx: await ctx.error(...)` in the handler
HandlerNotifies(tool) ==
    tool \in {"list_okta_groups", "get_okta_group", "list_okta_policy_rules",
              "get_okta_policies", "get_okta_policy_rule",
              "list_okta_network_zones"}

\* the call is over
Finish(c, a) == [c EXCEPT !.pc = "done", !.answer = a]

\* the awaits of the Context of the step the tool stands at, followed by
\* one of K: they return at once, or suspend, or raise
\* anyio.ClosedResourceError, for which the tool returns None (user_tools.py
\* 262-264)
Awaits(c, K) ==
    IF c.ctx = "none" THEN K
    ELSE K \cup {[c EXCEPT !.pc = "ctx"],
                 Finish([c EXCEPT !.ctx = "closed"], "null")}

\* an exception reaches `except Exception`.  datetime_tools.py 73-75 and
\* 141-143: the handler returns None.  group_tools.py 164-178: the
\* rate-limit answer for a text that names a rate limit, else ctx.error,
\* which suspends or raises out of the handler, and
\* handle_okta_result(e, ...)
Raise(c, t) ==
    IF c.tool \in DatetimeTools THEN {Finish(c, "null")}
    ELSE IF IsRateLimitText(t) THEN {Finish(c, "rate_limit")}
    ELSE IF c.ctx = "none" \/ ~HandlerNotifies(c.tool)
    THEN {Finish(c, "error")}
    ELSE {Finish(c, "error"),
          [c EXCEPT !.pc = "ctx_handler"],
          Finish([c EXCEPT !.ctx = "closed"], "raised")}

\* the tool runs from the step it stands at to its next suspension or to
\* its end; `ready` tells whether the property okta_client.client gives a
\* client (okta_client.py 26-45).  In the test `resp and resp.has_next()
\* and len(x) == limit` (group_tools.py 132) a cursor without has_next
\* raises AttributeError, has_next() may raise, and len(None) raises
\* TypeError.
RECURSIVE Run(_, _)
Run(c, ready) ==
    IF c.ip > Len(Steps(c.tool)) THEN {Finish(c, "result")}
    ELSE
    LET s == Steps(c.tool)[c.ip]
        n == [c EXCEPT !.ip = @ + 1]
    IN  CASE s = "ctx" -> Awaits(c, Run(n, ready))
          [] s = "validate" ->
                IF c.args = "invalid" THEN Raise(c, "cannot be empty")
                ELSE Run(n, ready)
          [] s = "env" ->
                IF ~c.env THEN Raise(c, "environment variable not set")
                ELSE Run(n, ready)
          [] s = "lookup" ->
                IF c.args # "login" THEN Run(n, ready)
                ELSE IF ready THEN {[c EXCEPT !.pc = "await"]}
                ELSE Raise(c, "configuration is required")
          [] s = "call" ->
                IF ready THEN {[c EXCEPT !.pc = "await"]}
                ELSE Raise(c, "configuration is required")
          [] s = "request" -> {[c EXCEPT !.pc = "await"]}
          [] s = "err" ->
                IF c.err THEN {Finish(c, "error")} ELSE Run(n, ready)
          [] s = "err_ctx" ->
                IF c.err THEN Awaits(c, {Finish(c, "error")})
                ELSE Run(n, ready)
          [] s = "len" ->
                IF c.ctx # "none" /\ c.value = "object"
                THEN Raise(c, "object has no len")
                ELSE Run(n, ready)
          [] s = "slice" ->
                IF c.value = "object"
                THEN Raise(c, "object is not subscriptable")
                ELSE Run(n, ready)
          [] s = "has_more" ->
                CASE c.cursor = "object" ->
                        Raise(c, "object has no attribute")
                  [] c.cursor = "raises" ->
                        Raise(c, "has_next failed") \cup {Finish(c, "null")}
                  [] c.cursor = "yes" /\ c.value = "none" ->
                        Raise(c, "object has no len")
                  [] OTHER -> Run(n, ready)
          [] s = "each" ->
                IF c.value \in {"dirty", "object"}
                THEN Raise(c, "object has no attribute")
                ELSE Run(n, ready)
          [] s = "one" ->
                IF c.value # "valid"
                THEN Raise(c, "object has no attribute")
                ELSE Run(n, ready)
          [] s = "next_cursor" ->
                IF c.cursor = "yes"
                THEN Run(n, ready) \cup Raise(c, "object has no attribute")
                ELSE Run(n, ready)
          [] s = "buffer" ->
                CASE c.args = "invalid" -> Raise(c, "date value out of range")
                  [] c.args = "buffer" -> Awaits(c, Run(n, ready))
                  [] OTHER -> Run(n, ready)
          [] s = "parse" ->
                IF c.args = "unparsed" THEN Awaits(c, {Finish(c, "null")})
                ELSE Run(n, ready)
          [] OTHER -> {}

\* what follows the awaits of the Context the tool was suspended in
AfterAwaits(c, ready) ==
    CASE c.pc = "ctx_handler" -> {Finish(c, "error")}
      [] Steps(c.tool)[c.ip] = "err_ctx" -> {Finish(c, "error")}
      [] Steps(c.tool)[c.ip] = "parse" -> {Finish(c, "null")}
      [] OTHER -> Run([c EXCEPT !.ip = @ + 1], ready)

\* ClosedResourceError of the awaits the tool was suspended in: None from
\* the body, out of the tool from the handler
ClosedIn(c) ==
    IF c.pc = "ctx_handler"
    THEN Finish([c EXCEPT !.ctx = "closed"], "raised")
    ELSE Finish([c EXCEPT !.ctx = "closed"], "null")

\* the upstream operation the tool awaits: a method of the SDK client
\* (user_tools.py 179) or an HTTP request of its own (policy_network_tools.py
\* 226), not okta_client.execute_api_call
UpstreamOf(c) ==
    IF c.pc # "await" THEN NoCall
    ELSE CASE Steps(c.tool)[c.ip] = "lookup" -> [op |-> "get", via |-> "client"]
           [] Steps(c.tool)[c.ip] = "call" -> [op |-> "list", via |-> "client"]
           [] OTHER -> [op |-> "request", via |-> "http"]

\* one of the tools in `tools` is called, with or without a Context, and
\* runs to its first suspension; os.getenv of policy_network_tools.py
\* 200-206 finds both variables or not.  The property client has set
\* _client_initialized when a method of the client is awaited
\* (okta_client.py 26-45).  One tool call is served at a time.
ToolCall(tools) ==
    /\ LoopIdle
    /\ call.pc = "idle"
    /\ loop.pc = "idle"
    /\ \E tool \in tools, x \in {"none", "open"}, configured \in BOOLEAN :
        \E a \in ArgsOf(tool),
           e \in IF tool \in HttpTools THEN BOOLEAN ELSE {TRUE} :
          call' \in Run([call EXCEPT !.tool = tool, !.ctx = x, !.args = a,
                                     !.env = e],
                        ClientReady(configured))
    /\ client_initialized' =
          (client_initialized \/ UpstreamOf(call').via = "client")
    /\ UNCHANGED request_manager
    /\ UNCHANGED managerVars
    /\ UNCHANGED walkVars
    /\ UNCHANGED loop

\* the awaits of the Context the tool stands at return, or raise
\* ClosedResourceError
ToolCtxEnds ==
    /\ LoopIdle
    /\ call.pc \in {"ctx", "ctx_handler"}
    /\ \E configured \in BOOLEAN :
          call' \in AfterAwaits(call, ClientReady(configured))
                        \cup {ClosedIn(call)}
    /\ client_initialized' =
          (client_initialized \/ UpstreamOf(call').via = "client")
    /\ UNCHANGED request_manager
    /\ UNCHANGED managerVars
    /\ UNCHANGED walkVars
    /\ UNCHANGED loop

\* what an upstream call gives: the first element of the normalized
\* response (None, a list that is empty, that holds valid items only or
\* that holds an item without as_dict; for a call that gets one entity
\* "valid" is that entity; "object" is a value that is none of these)
Values == {"none", "empty", "valid", "dirty", "object"}

\* the awaited upstream call ends: it raises an Exception or
\* ClosedResourceError, or returns.  The lookup returns an error, which the
\* tool returns (user_tools.py 234-236), or a user, whose id is read (238).
\* A call of the SDK returns an error or a value and a cursor; the request
\* returns the decoded body.  The cursor is None, has no has_next, or its
\* has_next() answers yes or no or raises.
ToolAwaitEnds ==
    /\ LoopIdle
    /\ call.pc = "await"
    /\ LET s == Steps(call.tool)[call.ip]
           n == [call EXCEPT !.ip = @ + 1]
       IN  \/ \E t \in ErrorTexts : call' \in Raise(call, t)
           \/ call' = Finish(call, "null")
           \/ /\ s = "lookup"
              /\ \/ call' = Finish(call, "error")
                 \/ \E v \in Values :
                       call' \in IF v = "valid" THEN Run(n, TRUE)
                                 ELSE Raise(call, "object has no attribute")
           \/ /\ s = "call"
              /\ \/ call' \in Run([n EXCEPT !.err = TRUE], TRUE)
                 \/ \E v \in Values,
                       k \in {"none", "object", "yes", "no", "raises"} :
                       call' \in Run([n EXCEPT !.value = v, !.cursor = k],
                                     TRUE)
           \/ /\ s = "request"
              /\ call' \in Run(n, TRUE)
    /\ UNCHANGED managerVars
    /\ UNCHANGED <<request_manager, client_initialized>>
    /\ UNCHANGED walkVars
    /\ UNCHANGED loop

\* the task of the tool call is cancelled while the tool awaits: no handler
\* of the tool catches CancelledError
ToolCancelled ==
    /\ LoopIdle
    /\ call.pc \in {"ctx", "ctx_handler", "await"}
    /\ call' = Finish(call, "cancelled")
    /\ UNCHANGED managerVars
    /\ UNCHANGED <<request_manager, client_initialized>>
    /\ UNCHANGED walkVars
    /\ UNCHANGED loop

\* the server: an OktaMcpClient built with or without a RequestManager and
\* with or without an SDK client (okta_client.py lines 14-24; create_server
\* builds it without both, server.py line 86), its execute_api_call, and
\* one call of a tool registered on it: a listing tool, or one of
\* the tools without a page loop
InitServer ==
    /\ InitManager
    /\ InitWalkIdle
    /\ InitLoopIdle
    /\ InitCallIdle
    /\ request_manager \in {"None", "RequestManager"}
    /\ client_initialized \in BOOLEAN

NextTools ==
    \/ \E r \in Requests : r <= MaxServerCalls /\ ExecuteApiCall(r)
    \/ \E r \in Requests : DirectEnds(r)
    \/ \E r \in Requests : DirectCancelled(r)
    \/ \E r \in Requests : FuncEnds(r)
    \/ \E r \in Requests : CancelInFlight(r)
    \/ \E r \in Requests : ReleaseImmediate(r)
    \/ \E r \in Requests : StartQueued(r)
    \/ \E r \in Requests : QueuedFuncEnds(r)
    \/ \E r \in Requests : ReleaseQueued(r)
    \/ \E r \in Requests : WakeWaiter(r)
    \/ \E r \in Requests : CancelRequested(r)
    \/ \E r \in Requests : CancelWaiting(r)
    \/ call.pc = "idle" /\ LoopCall(ListingTools)
    \/ LoopCtxEnds
    \/ LoopInitialEnds
    \/ LoopSleepEnds
    \/ LoopNextEnds(MaxCursorPages)
    \/ LoopCancelled
    \/ ToolCall(OtherTools)
    \/ ToolCtxEnds
    \/ ToolAwaitEnds
    \/ ToolCancelled

SpecTools == InitServer /\ [][NextTools]_vars

\* ------------------------------------------------------ derived notions
\* the submitted function of r has been invoked and has not ended
Executing(r) == pc[r] = "running" \/ task[r] = "running"

\* r has been given a slot that _release_slot has not yet been called for
HoldsSlot(r) == acquired[r] > released[r]

\* r has been submitted to execute()
Submitted(r) == pc[r] # "new"

\* the call of r is over: its caller has been answered (or was cancelled)
\* and nothing of it is left in the queue or in a task
Complete(r) ==
    /\ pc[r] \in {"returned", "raised", "cancelled"}
    /\ task[r] \in {"none", "finished"}

\* number of occurrences of r in the sequence q
Occurrences(q, r) == Cardinality({i \in 1..Len(q) : q[i] = r})

\* -------------------------------------------------------------- claims

\* C1: the number of submitted functions that are executing at the same time
\* never exceeds concurrent_limit.
C1_ConcurrencyBound ==
    Cardinality({r \in Requests : Executing(r)}) <= concurrent_limit

\* N > concurrent_limit calls were submitted, the limit is reached and a
\* request waits in the queue
C1_Witness ==
    /\ Cardinality({r \in Requests : Executing(r)}) = concurrent_limit
    /\ request_queue # <<>>
    /\ Cardinality({r \in Requests : Submitted(r)}) > concurrent_limit

\* C2: every submitted call is eventually run, and its caller eventually
\* receives the result or the error of its own function (a caller that was
\* cancelled meanwhile gets the cancellation instead).
C2_NoStarvation ==
    \A r \in Requests :
        Submitted(r) ~>
            /\ runs[r] >= 1
            /\ \/ pc[r] = "returned" /\ received[r] = Ok(r)
               \/ pc[r] = "raised" /\ received[r] = Err(r)
               \/ pc[r] = "cancelled"

\* C3: once all the submitted calls have completed, by success or by raising,
\* active_requests is back to 0 and the queue is empty; in general the calls
\* that have completed keep no slot: the counter never exceeds the number of
\* submitted calls that are not yet complete.
C3_SlotConservation ==
    /\ (\A r \in Requests : Submitted(r) => Complete(r))
            => active_requests = 0 /\ request_queue = <<>>
    /\ active_requests
            <= Cardinality({r \in Requests : Submitted(r) /\ ~Complete(r)})

\* all calls completed, one of them by raising and one after a wait in the
\* queue
C3_Witness ==
    /\ \A r \in Requests : Complete(r)
    /\ \E r \in Requests : pc[r] = "raised"
    /\ dequeued # <<>>
    /\ active_requests = 0

\* C4: queued requests are dequeued and handed a slot in the order in which
\* they were enqueued.
C4_Fifo ==
    /\ Len(dequeued) <= Len(enqueued)
    /\ \A i \in 1..Len(dequeued) : dequeued[i] = enqueued[i]

\* two requests waited in the queue together and both were dequeued
C4_Witness ==
    /\ Len(dequeued) >= 2
    /\ \E r \in Requests : HoldsSlot(r) /\ Occurrences(dequeued, r) = 1

\* C5 as stated: the future of a call is never resolved while the finished
\* call still holds its slot.
C5_FutureResolvedAfterRelease ==
    \A r \in Requests :
        future[r].kind \in {"ok", "err"} => ~HoldsSlot(r)

\* C5, amended: the result or the error of a call reaches the caller of
\* execute() only after _release_slot has been called for that call; the
\* future is resolved before, in the same run of the coroutine.
C5_CallerAnsweredAfterRelease ==
    \A r \in Requests :
        received[r].kind \in {"ok", "err"}
            => /\ ~HoldsSlot(r)
               /\ released[r] = 1

\* a call promoted from the queue failed, its slot is released and its
\* caller has got the error
C5_Witness ==
    \E r \in Requests :
        /\ Occurrences(dequeued, r) = 1
        /\ received[r] = Err(r)
        /\ released[r] = 1

\* a step that takes a request out of the queue
HandOver ==
    IF Len(request_queue') < Len(request_queue)
    THEN /\ active_requests' = active_requests
         /\ request_queue' = Tail(request_queue)
         /\ task'[Head(request_queue)] = "handed"
         /\ acquired'[Head(request_queue)] > released'[Head(request_queue)]
    ELSE TRUE

\* C6: a call that completes while the queue is non-empty hands its slot to
\* the head of the queue in the same step (the head is dequeued and the
\* counter is not decremented), and whenever a request is queued all
\* concurrent_limit slots are taken.
C6_NoIdleSlot ==
    /\ [](request_queue # <<>> => active_requests = concurrent_limit)
    /\ [][HandOver]_vars

\* a slot was handed over while another request was still waiting
C6_Witness ==
    /\ request_queue # <<>>
    /\ dequeued # <<>>
    /\ active_requests = concurrent_limit

\* the call of r has ended and its finally clause is done: _release_slot
\* has returned in execute (line 76), whatever the caller then got, or in
\* _execute_queued_task (line 113)
Ended(r) ==
    \/ /\ pc[r] \in {"returned", "raised", "cancelled"}
       /\ task[r] = "none"
       /\ acquired[r] > 0
    \/ task[r] = "finished"

\* C7: a raised error goes to the waiter of the call that raised, and only
\* to it, for an admitted call and for a queued call alike: once the call
\* has ended, what its function raised has reached its caller or is set on
\* the future the caller waits on; the slot of a failed call is released;
\* every caller that is answered gets the result of its own function.
C7_FailureIsolation ==
    \A r \in Requests :
        /\ outcome[r] = "cancel" /\ Ended(r)
            => /\ released[r] = 1
               /\ pc[r] = "cancelled" \/ future[r] # Pending
        /\ received[r].kind = "err" => outcome[r] = "err" /\ received[r] = Err(r)
        /\ received[r].kind = "ok" => outcome[r] = "ok" /\ received[r] = Ok(r)
        /\ outcome[r] = "err" /\ Ended(r)
            => /\ released[r] = 1
               /\ future[r] \in {Err(r), Cancelled}
               /\ pc[r] \in {"raised", "cancelled", "waiting"}

TaskSteps ==
    {<<"none", "queued">>, <<"queued", "handed">>, <<"handed", "running">>,
     <<"running", "releasing">>, <<"releasing", "finished">>}

\* C8: a queued request goes QUEUED -> RUNNING -> SUCCEEDED or FAILED: its
\* future is resolved only after its function has run, it is dequeued at
\* most once, and no submitted function is invoked more than once.
C8_RunOnce ==
    /\ [](\A r \in Requests :
            /\ runs[r] <= 1
            /\ Occurrences(dequeued, r) <= 1
            /\ Occurrences(enqueued, r) = 1 /\ future[r].kind \in {"ok", "err"}
                => runs[r] = 1 /\ task[r] \in {"releasing", "finished"}
            /\ task[r] \in {"running", "releasing", "finished"}
                => Occurrences(dequeued, r) = 1 /\ runs[r] = 1)
    /\ [][\A r \in Requests :
            task'[r] # task[r] => <<task[r], task'[r]>> \in TaskSteps]_vars

\* a queued request has gone through all its states and its future holds
\* the result
C8_Witness ==
    \E r \in Requests :
        /\ Occurrences(enqueued, r) = 1
        /\ task[r] = "finished"
        /\ future[r] = Ok(r)

\* the caller of r has got CancelledError, or the future it waits on has
\* been cancelled and it is about to get it
Abandoned(r) == pc[r] = "cancelled" \/ future[r] = Cancelled

\* C9: when the caller of execute() is cancelled, queued or in flight, the
\* slot of its request is released exactly once when the call ends: the
\* counter is never decremented twice for it, never negative, not left
\* elevated once the calls are over, and later requests are admitted.
C9_Abandonment ==
    /\ active_requests >= 0
    /\ \A r \in Requests :
        Abandoned(r)
            => /\ released[r] <= 1
               /\ released[r] <= acquired[r]
               /\ Complete(r) => released[r] = acquired[r]
               /\ Complete(r) /\ runs[r] = 1 => released[r] = 1
    /\ (\E r \in Requests : pc[r] = "cancelled") /\ (\A r \in Requests : Complete(r) \/ ~Submitted(r))
        => active_requests = 0 /\ request_queue = <<>>
    /\ \A r, s \in Requests :
        pc[r] = "cancelled" /\ Complete(r) /\ r < s /\ Complete(s)
            => runs[s] = 1 /\ released[s] = 1

\* one caller was cancelled while queued and one while in flight; both
\* calls are over and a request submitted later was served
C9_Witness ==
    \E a, b, c \in Requests :
        /\ pc[a] = "cancelled" /\ outcome[a] = "cancel" /\ Complete(a)
        /\ pc[b] = "cancelled" /\ future[b] = Cancelled /\ Complete(b)
        /\ a < c /\ b < c /\ received[c] = Ok(c)
        /\ active_requests = 0

\* the upstream operations in flight outside and inside the RequestManager
Unmanaged ==
    (IF Upstream(loop).op # "none" THEN 1 ELSE 0)
        + (IF UpstreamOf(call).op # "none" THEN 1 ELSE 0)
        + Cardinality({r \in Requests : pc[r] = "direct"})
Managed == Cardinality({r \in Requests : Executing(r)})

\* C10: every upstream operation issued for a tool call, the initial call
\* and each fetch of a continuation page, is invoked through execute() and
\* holds a slot; none is made outside the controller, so that the limit
\* holds across all the tool calls.
C10_OnlyThroughController ==
    /\ Upstream(loop).op # "none" => Upstream(loop).via = "execute"
    /\ UpstreamOf(call).op # "none" => UpstreamOf(call).via = "execute"
    /\ Unmanaged = 0
    /\ Unmanaged + Managed <= concurrent_limit

\* ------------------------------------------------- claims on the walker
\* the walk is over: paginate_okta_response has returned or raised
WalkOver == wpc \in {"done", "raised"}

\* C11: whatever the cursor answers, and for every page budget of at least
\* one, paginate_okta_response terminates and awaits next() at most
\* max_pages times; it awaits next() only while the budget is not reached
\* and nothing has stopped the walk.
C11_Termination ==
    /\ [](fetches <= max_pages)
    /\ [](wpc = "fetching" => fetches < max_pages /\ stop = "none")
    /\ <>WalkOver

\* the budget stops a walk of several fetches whose cursor has more pages
C11_Witness ==
    /\ wpc = "done"
    /\ stop = "budget"
    /\ more = "yes"
    /\ fetches >= 2
    /\ fetches = max_pages - 1

\* C12: when the normalized response carries an error, the walker returns
\* at once: it awaits no next(), and what it returns carries that error.
C12_FailFast ==
    (wpc \notin {"raw", "normalized"} /\ Truthy(norm[3])) =>
        /\ wpc = "done"
        /\ fetches = 0
        /\ result.kind = "returned"
        /\ result.err = norm[3]

\* an error came with a page and a cursor that has more pages, under a
\* budget that allows a fetch
C12_Witness ==
    /\ wpc = "done"
    /\ stop = "initial_error"
    /\ raw.type = "tuple"
    /\ Len(raw.elems) = 3
    /\ raw.elems[3] = result.err
    /\ Iterable(norm[1])
    /\ HasHasNext(norm[2])
    /\ norm[2].more = "yes"
    /\ max_pages > 1

\* the items of a sequence of pages, in page order
RECURSIVE Concat(_)
Concat(pages) ==
    IF pages = <<>> THEN <<>> ELSE Head(pages) \o Concat(Tail(pages))

\* the last next() did not deliver a page: it returned an error, or
\* raised, or returned items that cannot be iterated
FetchFailed == next_page.kind \in {"error", "raise", "no_items"}

\* C13: when the fetch of page k fails, the walker returns exactly the
\* valid items of the pages 1..k-1, in order: what was accumulated is
\* kept, and nothing of page k or of a later page is included.
C13_PartialResults ==
    (wpc = "done" /\ FetchFailed) =>
        /\ result.kind = "returned"
        /\ Len(page_log) = walk_count - 1
        /\ Len(page_log) = fetches
        /\ result.results = ListV(ValidItems(Concat(page_log)))

\* the second continuation fetch fails after two pages that carried valid
\* and invalid items
C13_Witness ==
    /\ wpc = "done"
    /\ next_page.kind = "error"
    /\ fetches = 2
    /\ Len(page_log) = 2
    /\ Len(page_log[1]) > Len(ValidItems(page_log[1]))
    /\ Len(ValidItems(page_log[1])) > 0
    /\ Len(ValidItems(page_log[2])) > 0
    /\ result.results = ListV(ValidItems(page_log[1] \o page_log[2]))

\* C14: a walk that a failing continuation page stopped returns that
\* page's error, not a null error, with the partial items.
C14_PageErrorReturned ==
    (wpc = "done" /\ FetchFailed) => result.err # NoneV

\* C15: the page_count returned is the number of pages whose items were
\* accumulated: the initial page and every page fetched with success; a
\* page whose fetch failed is not counted.
C15_PageCountIsAccumulated ==
    (wpc = "done" /\ stop # "initial_error") =>
        result.page_count = Len(page_log)

\* C16: after a fetched page without items the walker awaits no further
\* next(), whatever the cursor announces and whatever budget remains.
C16_EmptyPageStops ==
    \A k \in 2..Len(page_log) : page_log[k] = <<>> => fetches = k - 1

\* C17: when the page budget is reached while the cursor has more pages,
\* the walker returns (it does not raise) a null error, all the valid
\* items accumulated, the number of pages, and the cursor, on which the
\* caller finds that more pages remain.  (A walk that was cancelled during
\* its last fetch did not come to the budget.)
C17_BudgetExhausted ==
    (WalkOver /\ stop # "cancelled" /\ walk_count = max_pages /\ more = "yes"
        /\ ~FetchFailed) =>
        /\ result.kind = "returned"
        /\ result.err = NoneV
        /\ result.results = ListV(ValidItems(Concat(page_log)))
        /\ result.page_count = max_pages
        /\ result.resp = norm[2]
        /\ HasHasNext(result.resp)

\* the budget ends a walk of three pages whose cursor announces a fourth
C17_Witness ==
    /\ wpc = "done"
    /\ walk_count = max_pages
    /\ max_pages = 3
    /\ more = "yes"
    /\ next_page.kind = "page"
    /\ Len(result.results.items) >= 3

\* C18: whatever normalize_okta_response returns with a null error, and
\* whatever the cursor does, paginate_okta_response returns: it never
\* raises, unless its task is cancelled.
C18_NeverRaises ==
    (wpc \notin {"raw", "normalized"} /\ norm[3] = NoneV) =>
        (wpc = "raised" => stop = "cancelled")

\* the items of a value that is a page, none for any other value
PageItems(v) == IF Iterable(v) THEN ItemsOf(v) ELSE <<>>

\* C19 as stated: the aggregate the walker returns is the items of the
\* initial page and of the pages fetched with success that are not None and
\* expose as_dict, in page order and in their order within the page: no
\* other item is in it, none is dropped, none is duplicated.
C19_Filtering ==
    wpc = "done" =>
        LET pages == IF stop = "initial_error" THEN PageItems(norm[1])
                     ELSE Concat(page_log)
        IN  PageItems(result.results) = ValidItems(pages)

\* C19, amended: the same for every walk whose initial response carries no
\* error; the walk that fails fast on the error of the initial response
\* filters nothing and hands the initial items back as it received them.
C19_FilteringOfWalks ==
    /\ (wpc = "done" /\ stop # "initial_error") =>
          LET pages == Concat(page_log)
              kept == {k \in 1..Len(pages) : pages[k] \in {1, 2}}
              agg == result.results.items
          IN  /\ Len(agg) = Cardinality(kept)
              /\ \A k \in 1..Len(agg) :
                    agg[k] = pages[CHOOSE j \in kept :
                                Cardinality({i \in kept : i <= j}) = k]
    /\ (wpc = "done" /\ stop = "initial_error") => result.results = norm[1]

\* a walk over an initial page and a fetched page that both mix valid
\* items with None and with an object without as_dict
C19_Witness ==
    /\ wpc = "done"
    /\ Len(page_log) = 2
    /\ \E k \in 1..Len(page_log[1]) : page_log[1][k] = 0
    /\ \E k \in 1..Len(page_log[1]) : page_log[1][k] > 0
    /\ page_log[2] = <<0, 2, -1>>
    /\ Len(result.results.items) = 2

\* C20: normalize_okta_response returns the three elements of a 3-tuple
\* as they are and in their order, a true error included, and turns the
\* 2-tuple (items, cursor) into (items, cursor, None).
C20_TuplesNormalized ==
    (wpc # "raw" /\ raw.type = "tuple") =>
        /\ Len(raw.elems) = 3 =>
              /\ Len(norm) = 3
              /\ \A k \in 1..3 : norm[k] = raw.elems[k]
        /\ Len(raw.elems) = 2 =>
              /\ Len(norm) = 3
              /\ norm[1] = raw.elems[1]
              /\ norm[2] = raw.elems[2]
              /\ norm[3] = NoneV

\* a 3-tuple that carries items, a cursor and an error has been normalized
C20_Witness ==
    /\ wpc = "normalized"
    /\ raw.type = "tuple"
    /\ Len(raw.elems) = 3
    /\ Truthy(raw.elems[1])
    /\ HasHasNext(raw.elems[2])
    /\ Truthy(raw.elems[3])
    /\ norm = raw.elems

\* the element count that the text of a shape error carries: the length
\* of the tuple whose repr ends the text
ElementCount(e) == Len(e.arg.elems)

\* C21: for a tuple of a length N other than 2 and 3, the empty tuple and
\* 1-tuples included, normalize_okta_response returns null items, a null
\* cursor and an unexpected-format error, and reports the count N.
C21_UnexpectedShape ==
    (passes = 1 /\ raw.type = "tuple" /\ Len(raw.elems) \notin {2, 3}) =>
        /\ norm[1] = NoneV
        /\ norm[2] = NoneV
        /\ norm[3] = ShapeError(raw)
        /\ ElementCount(norm[3]) = Len(raw.elems)
        /\ Len(log) = 1
        /\ log[1].elements = Len(raw.elems)

\* the empty tuple has been normalized
C21_Witness ==
    /\ passes = 1
    /\ raw = TupleV(<<>>)
    /\ norm[3].type = "error"
    /\ log[1].elements = 0

\* C22: for an input that is no tuple, normalize_okta_response returns
\* (input, cursor, None), the cursor being the attribute `response` of the
\* input, or None when it has none; None gives (None, None, None).
C22_BareValue ==
    (passes = 1 /\ raw.type # "tuple") =>
        /\ norm[1] = raw
        /\ norm[2] = (IF raw.type = "object" THEN raw.attr ELSE NoneV)
        /\ norm[3] = NoneV
        /\ raw = NoneV => norm = <<NoneV, NoneV, NoneV>>
        /\ log = <<>>

\* an object with a cursor in its attribute `response` has been normalized
C22_Witness ==
    /\ passes = 1
    /\ raw.type = "object"
    /\ raw.attr.type = "response"
    /\ norm = <<raw, raw.attr, NoneV>>

\* C23: normalize_okta_response gives every input a triple, touches
\* nothing else, and normalizing its result again gives the same triple.
C23_Idempotent ==
    /\ [](passes >= 1 => Len(norm) = 3)
    /\ [][(passes' > passes) =>
             /\ passes >= 1 => norm' = norm
             /\ UNCHANGED <<raw, max_pages, all_results, walk_count, more,
                            next_page, result, fetches, page_log, stop>>
             /\ UNCHANGED <<managerVars, toolVars>>]_vars

\* a non-empty tuple of a length other than 3 has been normalized twice
C23_Witness ==
    /\ passes = 2
    /\ raw.type = "tuple"
    /\ Len(raw.elems) \notin {0, 3}
    /\ Len(norm) = 3

\* C24: a bare object without cursor attribute is normalized to a list of
\* one item, a null cursor and a null error, and a walk over that returns
\* at once: no fetch, page_count = 0, no error.
C24_BareObjectWalk ==
    (passes >= 1 /\ raw = ObjectV(NoneV)) =>
        /\ norm[1].type = "list"
        /\ Len(norm[1].items) = 1
        /\ norm[2] = NoneV
        /\ norm[3] = NoneV
        /\ WalkOver =>
              /\ result.kind = "returned"
              /\ result.err = NoneV
              /\ result.page_count = 0
              /\ fetches = 0

\* ---------------------------------------------- claims on the page loops
\* C25: every continuation fetch comes after a delay within the same walk:
\* no loop awaits next() right after the previous upstream call.
C25_DelayBeforeFetch == loop.pc = "next" => loop.slept

\* C26: an upstream error whose text tells a rate limit, raised or returned
\* by the initial call or by the fetch of a page, reaches the caller of
\* the tool as the rate-limit category: not as a generic failure, and not
\* dropped.
C26_RateLimitSurfaced ==
    (loop.pc = "done" /\ loop.seen = "rate_limit") =>
        loop.answer = "rate_limit"

\* C30: the page loops of the tools end for every cursor: an iteration
\* breaks or counts a page, at most 50 pages are fetched (20 of event
\* logs), and the tool returns.
C30_LoopsTerminate ==
    /\ [](loop.tool \in LoopTools => loop.fetches <= PageLimit(loop.tool))
    /\ [](loop.pc = "done" => loop.answer # "none")
    /\ [][(loop.pc = "next" /\ loop'.pc \in {"ctx_page", "sleep", "next"}) =>
             loop'.page_count = loop.page_count + 1]_vars
    /\ <>(loop.pc = "done")

\* the safety check ended the loop of the event logs after 20 fetches, and
\* that of an application after 50, under a cursor that announces more
C30_Witness ==
    /\ loop.pc = "done"
    /\ loop.tool \in LoopTools
    /\ loop.fetches = PageLimit(loop.tool)
    /\ loop.page_count = PageLimit(loop.tool) + 1
    /\ loop.cursor = "yes"
    /\ loop.answer = "result"

\* ------------------------------------------ further claims on the manager
\* r was dequeued and given the slot of the call that ended, and the task
\* created for it (line 97) has not started its function
HandedSlot(r) == task[r] = "handed"

\* C27: active_requests stays between 0 and concurrent_limit, and it is
\* the number of calls that execute plus the number of requests that were
\* dequeued and handed a slot and whose function has not started.
C27_SlotAccounting ==
    /\ 0 <= active_requests
    /\ active_requests <= concurrent_limit
    /\ LoopIdle =>
          active_requests =
              Cardinality({r \in Requests : Executing(r)})
                  + Cardinality({r \in Requests : HandedSlot(r)})

\* a call executes, another request holds a handed slot and has not
\* started, and a third call is over
C27_Witness ==
    /\ LoopIdle
    /\ active_requests = 2
    /\ \E r \in Requests : Executing(r)
    /\ \E r \in Requests : HandedSlot(r)
    /\ \E r \in Requests : Complete(r)

\* C28: a request that arrives is admitted at once only when the queue is
\* empty, and a slot is handed to the head of the queue only: no request
\* gets a slot while a request submitted before it waits in the queue.
C28_NoOvertaking ==
    [][\A r \in Requests :
          acquired'[r] > acquired[r] =>
              IF request_queue = <<>>
              THEN pc[r] = "new"
              ELSE /\ r = Head(request_queue)
                   /\ \A i \in 1..Len(request_queue) : r <= request_queue[i]]_vars

\* a slot was handed to the head of the queue while a later request waits
C28_Witness ==
    /\ \E r \in Requests : HandedSlot(r) /\ \A i \in 1..Len(request_queue) : r < request_queue[i]
    /\ request_queue # <<>>

\* C29: on a RequestManager constructed with a limit that is not
\* positive, every call of execute() is enqueued, no function is started,
\* active_requests stays 0 and no caller gets a result or an error.
C29_NonPositiveLimit ==
    concurrent_limit <= 0 =>
        /\ active_requests = 0
        /\ \A r \in Requests :
              /\ Submitted(r) => Occurrences(enqueued, r) = 1
              /\ Submitted(r) => Occurrences(request_queue, r) = 1
              /\ runs[r] = 0
              /\ acquired[r] = 0
              /\ ~Executing(r)
              /\ pc[r] \in {"new", "waiting", "cancelled"}
              /\ received[r] \in {Nothing, Cancelled}
              /\ future[r] \in {Pending, Cancelled}

\* on a manager of limit 0 every request was submitted and waits
C29_Witness ==
    /\ concurrent_limit = 0
    /\ Len(request_queue) = MaxRequests
    /\ \A r \in Requests : pc[r] = "waiting"
====
